---- MODULE Spec2Model ----
(***************************************************************************)
(* Model of the STM32H7 SPI server task (drv/stm32h7-spi-server): the     *)
(* lock manager, the mux controller and the transfer engine ready_writey, *)
(* running against a model of the SPI controller, the GPIO driver and the *)
(* client tasks.                                                          *)
(***************************************************************************)
EXTENDS Integers, Sequences, FiniteSets, TLC

VARIABLES
  lock_holder,        \* ServerImpl.lock_holder : Option<LockState>
  current_mux_index,  \* ServerImpl.current_mux_index
  gpio,               \* the GPIO driver's pins: mode and output data bit
  spi,                \* the SPI controller (spi_core::Spi)
  pc,                 \* position of the server task
  loc,                \* locals of ready_writey
  dest,               \* bytes written into the caller's destination lease
  req,                \* the request being (or last) dispatched
  reply,              \* the reply to req ("none" while it is being served)
  wire_tx,            \* bytes clocked out on the bus in this transaction
  wire_rx,            \* bytes clocked in from the bus in this transaction
  rx_taken,           \* bytes the engine took out of the receive FIFO
  oplog,              \* bus and pin operations of this request, in order
  config,             \* the configuration table the startup validator reads
  sequencer,          \* sidecar sequencer: the fields of its ServerImpl
  controller          \* sidecar sequencer: registers of the controller FPGA

vars == << lock_holder, current_mux_index, gpio, spi, pc, loc, dest,
           req, reply, wire_tx, wire_rx, rx_taken, oplog, config,
           sequencer, controller >>

----------------------------------------------------------------------------
\* Bounds of the model.

\* Longest source or destination lease (the code caps them at 65535).
MaxLen == 2
\* Number of client tasks.
NumClients == 2

Clients == 1..NumClients
\* A source lease of length n holds the bytes 1..n (distinct by position).
SrcOf(n) == [i \in 1..n |-> i]
\* The byte the addressed device answers the k-th frame of a transaction
\* with (distinct by position, and distinct from every source byte).
RxOf(k) == 16 * k

----------------------------------------------------------------------------
\* Program constants.

\* let mut tx_permits = 16
\* LenLimit<_, 65535>: the longest lease a transfer takes (u16::MAX)
U16_MAX == 65535
TX_PERMITS == 16
\* const BUFSIZ: usize = 32
BUFSIZ == 32
\* Depth of the controller's FIFOs, in bytes.
FIFO_DEPTH == 16

----------------------------------------------------------------------------
\* The configuration table CONFIG (generated spi_config.rs).

\* Pins are named <<kind, index, n>>.
CsPin(d) == << "cs", d, 0 >>
OutPin(m, k) == << "out", m, k >>
InPin(m) == << "in", m, 0 >>

\* mux_options: option 0 has both outputs in one group, option 1 has them in
\* two groups (two ports); indices are 0-based as in the code.
CONFIG_mux_options ==
  << [outputs |-> << {OutPin(0, 0), OutPin(0, 1)} >>,
      input |-> InPin(0), swap_data |-> FALSE],
     [outputs |-> << {OutPin(1, 0)}, {OutPin(1, 1)} >>,
      input |-> InPin(1), swap_data |-> TRUE] >>

CONFIG_devices ==
  << [mux_index |-> 0, cs |-> CsPin(0), clock_divider |-> 64],
     [mux_index |-> 0, cs |-> CsPin(1), clock_divider |-> 256],
     [mux_index |-> 1, cs |-> CsPin(2), clock_divider |-> 64] >>

NumDevices == Len(CONFIG_devices)
NumMuxOptions == Len(CONFIG_mux_options)
\* CONFIG.devices.get(i) / CONFIG.mux_options[i], 0-based
Device(i) == CONFIG_devices[i + 1]
MuxOption(i) == CONFIG_mux_options[i + 1]

AllPins == {CsPin(d) : d \in 0..(NumDevices - 1)}
           \cup UNION {UNION {MuxOption(m).outputs[k] :
                                k \in 1..Len(MuxOption(m).outputs)} :
                         m \in 0..(NumMuxOptions - 1)}
           \cup {InPin(m) : m \in 0..(NumMuxOptions - 1)}

\* device_index arrives as a u8; one value past the table is enough.
DeviceIndices == 0..NumDevices

\* The same table as check_server_config reads it: pins as a port and a
\* 16-bit mask, the register block as a pointer.
CONFIG ==
  [registers |-> "SPI",
   mux_options |->
     << [outputs |-> << [port |-> "A", pin_mask |-> 3] >>,
         input |-> [port |-> "A", pin_mask |-> 4]],
        [outputs |-> << [port |-> "B", pin_mask |-> 1],
                        [port |-> "C", pin_mask |-> 1] >>,
         input |-> [port |-> "B", pin_mask |-> 2]] >>,
   devices |->
     << [mux_index |-> 0, cs |-> [port |-> "D", pin_mask |-> 1]],
        [mux_index |-> 0, cs |-> [port |-> "D", pin_mask |-> 2]],
        [mux_index |-> 1, cs |-> [port |-> "D", pin_mask |-> 4]] >>]

----------------------------------------------------------------------------
\* The sidecar sequencer server as main() builds it.

SequencerStartup == [state |-> "A2", vid |-> "Invalid"]

\* The controller FPGA before the sequencer has written to it.
ControllerReset == [TOFINO_EN |-> 0, TOFINO_SEQ_STATE |-> 0]

----------------------------------------------------------------------------
\* Task identities.

\* A TaskId is a task index and a generation. Generations are kept relative
\* to the task's current one: old is FALSE for the id of the running
\* incarnation and TRUE for the id of an earlier, dead one.
TaskId(t) == [index |-> t, old |-> FALSE]
NoTask == [index |-> 0, old |-> FALSE]

\* Option<LockState>
None == [some |-> FALSE, task |-> NoTask, device_index |-> 0]
SomeLock(task, devidx) == [some |-> TRUE, task |-> task, device_index |-> devidx]

\* The task id is still the current generation of its task.
TaskAlive(task) == task.index \in Clients /\ ~task.old

----------------------------------------------------------------------------
\* GPIO driver: set_reset and configure.

\* gpio.set_reset(port, set_mask, reset_mask)
set_reset(g, set_pins, reset_pins) ==
  [p \in DOMAIN g |->
     IF p \in set_pins THEN [g[p] EXCEPT !.odr = 1]
     ELSE IF p \in reset_pins THEN [g[p] EXCEPT !.odr = 0]
     ELSE g[p]]

\* gpio.configure(port, mask, mode, output type, speed, pull, af): every
\* call of the server passes OutputType::PushPull and Pull::None.
configure(g, pins, mode) ==
  [p \in DOMAIN g |->
     IF p \in pins
     THEN [g[p] EXCEPT !.mode = mode, !.otype = "PushPull", !.pull = "None"]
     ELSE g[p]]

\* Chip-select is active low.
CsAsserted(g, d) == g[CsPin(d)].odr = 0

----------------------------------------------------------------------------
\* SPI controller operations (spi_core::Spi).

\* enable loads the transfer size; the controller counts it down.
Spi_enable(s, len, div) == [s EXCEPT !.enabled = TRUE, !.ctsize = len]
Spi_start(s) == [s EXCEPT !.started = TRUE]
Spi_end(s) ==
  [s EXCEPT !.enabled = FALSE, !.started = FALSE, !.txfifo = << >>,
            !.rxfifo = << >>, !.ie = FALSE, !.txp_ie = FALSE, !.ovr = FALSE]
Spi_send8(s, b) == [s EXCEPT !.txfifo = Append(@, b)]
Spi_recv8(s) == [s EXCEPT !.rxfifo = Tail(@)]
Spi_can_tx_frame(s) == s.enabled /\ Len(s.txfifo) < FIFO_DEPTH
Spi_can_rx_byte(s) == Len(s.rxfifo) > 0
Spi_check_overrun(s) == s.ovr
Spi_check_eot(s) == s.eot
Spi_clear_eot(s) == [s EXCEPT !.eot = FALSE]
Spi_enable_transfer_interrupts(s) == [s EXCEPT !.ie = TRUE, !.txp_ie = TRUE]
Spi_disable_can_tx_interrupt(s) == [s EXCEPT !.txp_ie = FALSE]
Spi_set_data_line_swap(s, f) == [s EXCEPT !.swap = f]

----------------------------------------------------------------------------
\* Mux controller.

RECURSIVE DeactivateOutputs(_, _, _)
DeactivateOutputs(g, outputs, k) ==
  IF k > Len(outputs) THEN g
  ELSE DeactivateOutputs(
         configure(set_reset(g, {}, outputs[k]), outputs[k], "Output"),
         outputs, k + 1)

\* deactivate_mux_option without the set_reset that drives the outputs low.
deactivate_mux_option_nolow(g, opt) ==
  configure(configure(g, UNION {opt.outputs[k] : k \in 1..Len(opt.outputs)},
                      "Output"),
            {opt.input}, "Input")

\* fn deactivate_mux_option
deactivate_mux_option(g, opt) ==
  configure(DeactivateOutputs(g, opt.outputs, 1), {opt.input}, "Input")

RECURSIVE ActivateOutputs(_, _, _)
ActivateOutputs(g, outputs, k) ==
  IF k > Len(outputs) THEN g
  ELSE ActivateOutputs(configure(g, outputs[k], "Alternate"), outputs, k + 1)

\* fn activate_mux_option: the pins (the data line swap is applied to spi)
activate_mux_option(g, opt) ==
  configure(ActivateOutputs(g, opt.outputs, 1), {opt.input}, "Alternate")

----------------------------------------------------------------------------
\* Initial state: main() has run up to the dispatch loop.

RECURSIVE DeactivateFrom(_, _)
DeactivateFrom(g, m) ==
  IF m >= NumMuxOptions THEN g
  ELSE DeactivateFrom(deactivate_mux_option(g, MuxOption(m)), m + 1)

\* Pins as main() leaves them: every CS set and in output mode, options
\* 1.. deactivated, option 0 activated.
StartupGpio ==
  LET cs_done == [p \in AllPins |->
                    IF p[1] = "cs"
                    THEN [mode |-> "Output", odr |-> 1,
                          otype |-> "PushPull", pull |-> "None"]
                    ELSE [mode |-> "Input", odr |-> 0,
                          otype |-> "PushPull", pull |-> "None"]]
  IN activate_mux_option(DeactivateFrom(cs_done, 1), MuxOption(0))

StartupSpi ==
  [enabled |-> FALSE, ctsize |-> 0, started |-> FALSE, txfifo |-> << >>, rxfifo |-> << >>, eot |-> FALSE,
   ovr |-> FALSE, ie |-> FALSE, txp_ie |-> FALSE,
   swap |-> MuxOption(0).swap_data]

NoLocals ==
  [overall_len |-> 0, src_len |-> 0, dest_len |-> 0, device_index |-> 0,
   tx |-> FALSE, tx_fetched |-> 0, rx |-> FALSE, rx_buf |-> << >>,
   rx_pos |-> 0, tx_permits |-> 0, tx_count |-> 0, rx_count |-> 0,
   made_progress |-> FALSE, cs_override |-> FALSE]

NoRequest ==
  [kind |-> "none", task |-> NoTask, device_index |-> 0, has_src |-> FALSE,
   src |-> << >>, has_dest |-> FALSE, dest_len |-> 0, cs_state |-> "-",
   was_locked |-> FALSE, locked_dev |-> 0]

Init ==
  /\ lock_holder = None
  /\ current_mux_index = 0
  /\ gpio = StartupGpio
  /\ spi = StartupSpi
  /\ pc = "recv"
  /\ loc = NoLocals
  /\ dest = << >>
  /\ req = NoRequest
  /\ reply = "none"
  /\ wire_tx = << >>
  /\ wire_rx = << >>
  /\ rx_taken = << >>
  /\ oplog = << >>
  /\ config = CONFIG
  /\ sequencer = SequencerStartup
  /\ controller = ControllerReset

----------------------------------------------------------------------------
\* Request delivery (idol_runtime::dispatch with recv_source).

\* recv_source always asking for an open receive.
recv_source_open(lh) == {TaskId(t) : t \in Clients}

\* recv_source: with a lock held the receive is closed on the holder.
recv_source(lh) == IF lh.some THEN {lh.task} ELSE {TaskId(t) : t \in Clients}

Idle == pc = "recv"

\* A request of client t can be received now.
CanReceive(t) == Idle /\ TaskId(t) \in recv_source(lock_holder)

\* What every dispatch does to the record of the request in hand.
\* (was_locked and locked_dev record the lock state the request met.)
Dispatched(r, rep) ==
  /\ req' = [r EXCEPT !.was_locked = lock_holder.some,
                      !.locked_dev = lock_holder.device_index]
  /\ reply' = rep

\* The request is no transfer, or is refused: no transfer is in hand.
NoTransfer == UNCHANGED << loc, dest, wire_tx, wire_rx, rx_taken, oplog >>

\* main's loop: the handler has returned, the reply is sent and dispatch
\* receives again.
dispatch_loop ==
  /\ pc = "reply"
  /\ pc' = "recv"
  /\ req' = NoRequest
  /\ reply' = "none"
  /\ loc' = NoLocals
  /\ dest' = << >>
  /\ wire_tx' = << >>
  /\ wire_rx' = << >>
  /\ rx_taken' = << >>
  /\ oplog' = << >>
  /\ UNCHANGED << lock_holder, current_mux_index, gpio, spi >>
  /\ UNCHANGED << config, sequencer, controller >>

LockRequest(t, devidx, cs_state) ==
  [NoRequest EXCEPT !.kind = "lock", !.task = TaskId(t),
                    !.device_index = devidx, !.cs_state = cs_state]
ReleaseRequest(t) == [NoRequest EXCEPT !.kind = "release", !.task = TaskId(t)]
TransferRequest(t, op, d, has_src, src, has_dest, dest_len) ==
  [NoRequest EXCEPT !.kind = op, !.task = TaskId(t), !.device_index = d,
                    !.has_src = has_src, !.src = src,
                    !.has_dest = has_dest, !.dest_len = dest_len]

----------------------------------------------------------------------------
\* Lock manager.

\* closed_recv_fail deasserting the chip-select of the locked device, as
\* release does.
closed_recv_fail_deassert ==
  /\ Idle
  /\ lock_holder.some
  /\ ~TaskAlive(lock_holder.task)
  /\ lock_holder' = None
  /\ gpio' = set_reset(gpio, {Device(lock_holder.device_index).cs}, {})
  /\ UNCHANGED << current_mux_index, spi, pc, loc, dest, req,
                  reply, wire_tx, wire_rx, rx_taken, oplog >>
  /\ UNCHANGED << config, sequencer, controller >>

\* closed_recv_fail: the closed receive failed because the holder is gone.
closed_recv_fail ==
  /\ Idle
  /\ lock_holder.some
  /\ ~TaskAlive(lock_holder.task)
  /\ lock_holder' = None
  /\ UNCHANGED << current_mux_index, gpio, spi, pc, loc, dest, req,
                  reply, wire_tx, wire_rx, rx_taken, oplog >>
  /\ UNCHANGED << config, sequencer, controller >>

\* lock_check letting the holder name another device.
lock_check_retarget(lh, sender, devidx) ==
  IF lh.some /\ lh.task # sender THEN "panic"
  ELSE IF devidx >= NumDevices THEN "BadDevice"
  ELSE "Ok"

\* lock_check with the comparison of the device indices inverted.
lock_check_inverted(lh, sender, devidx) ==
  IF lh.some /\ lh.task # sender THEN "panic"
  ELSE IF lh.some /\ lh.device_index = devidx THEN "BadDevice"
  ELSE IF devidx >= NumDevices THEN "BadDevice"
  ELSE "Ok"

\* lock: the checks, in the order of the code.
lock_check(lh, sender, devidx) ==
  IF lh.some /\ lh.task # sender THEN "panic"
  ELSE IF lh.some /\ lh.device_index # devidx THEN "BadDevice"
  ELSE IF devidx >= NumDevices THEN "BadDevice"
  ELSE "Ok"

\* lock_set_cs with the set and reset masks exchanged.
lock_set_cs_inverted(g, devidx, cs_asserted) ==
  IF cs_asserted THEN set_reset(g, {Device(devidx).cs}, {})
  ELSE set_reset(g, {}, {Device(devidx).cs})

\* lock: CS is active low, asserting resets the pin.
lock_set_cs(g, devidx, cs_asserted) ==
  IF cs_asserted THEN set_reset(g, {}, {Device(devidx).cs})
  ELSE set_reset(g, {Device(devidx).cs}, {})

\* lock: the lock state a successful call leaves.
lock_take(sender, devidx) == SomeLock(sender, devidx)

lock(t, devidx, cs_state) ==
  /\ CanReceive(t)
  /\ LET res == lock_check(lock_holder, TaskId(t), devidx) IN
       /\ Dispatched(LockRequest(t, devidx, cs_state),
                     IF res = "panic" THEN "none" ELSE res)
       /\ pc' = IF res = "panic" THEN "panicked" ELSE "reply"
       /\ IF res = "Ok"
          THEN /\ gpio' = lock_set_cs(gpio, devidx, cs_state = "Asserted")
               /\ lock_holder' = lock_take(TaskId(t), devidx)
          ELSE UNCHANGED << gpio, lock_holder >>
  /\ NoTransfer
  /\ UNCHANGED << current_mux_index, spi >>
  /\ UNCHANGED << config, sequencer, controller >>

\* release: the check.
release_check(lh, sender) ==
  IF lh.some THEN (IF lh.task # sender THEN "panic" ELSE "Ok")
  ELSE "NothingToRelease"

\* release_set_cs resetting the pin instead of setting it.
release_set_cs_reset(g, lh) == set_reset(g, {}, {Device(lh.device_index).cs})

\* release: deassert (set) CS of the locked device.
release_set_cs(g, lh) == set_reset(g, {Device(lh.device_index).cs}, {})

release(t) ==
  /\ CanReceive(t)
  /\ LET res == release_check(lock_holder, TaskId(t)) IN
       /\ Dispatched(ReleaseRequest(t), IF res = "panic" THEN "none" ELSE res)
       /\ pc' = IF res = "panic" THEN "panicked" ELSE "reply"
       /\ IF res = "Ok"
          THEN /\ gpio' = release_set_cs(gpio, lock_holder)
               /\ lock_holder' = None
          ELSE UNCHANGED << gpio, lock_holder >>
  /\ NoTransfer
  /\ UNCHANGED << current_mux_index, spi >>
  /\ UNCHANGED << config, sequencer, controller >>

----------------------------------------------------------------------------
\* Transfer engine: ready_writey.

Max(a, b) == IF a >= b THEN a ELSE b
Min(a, b) == IF a <= b THEN a ELSE b

\* ready_writey_check without the check of the transfer size.
ready_writey_check_nosize(lh, device_index, has_src, src_len, has_dest, dest_len) ==
  IF lh.some /\ lh.device_index # device_index THEN "BadDevice"
  ELSE IF device_index >= NumDevices THEN "BadDevice"
  ELSE IF ~has_src /\ ~has_dest THEN "panic"
  ELSE "Ok"

\* ready_writey_check with the size checked before the device range.
ready_writey_check_size_first(lh, device_index, has_src, src_len, has_dest, dest_len) ==
  IF lh.some /\ lh.device_index # device_index THEN "BadDevice"
  ELSE IF ~has_src /\ ~has_dest THEN "panic"
  ELSE IF Max(src_len, dest_len) = 0 THEN "BadTransferSize"
  ELSE IF device_index >= NumDevices THEN "BadDevice"
  ELSE "Ok"

\* ready_writey_check letting an exchange of no byte through.
ready_writey_check_exchange0(lh, device_index, has_src, src_len, has_dest, dest_len) ==
  IF lh.some /\ lh.device_index # device_index THEN "BadDevice"
  ELSE IF device_index >= NumDevices THEN "BadDevice"
  ELSE IF ~has_src /\ ~has_dest THEN "panic"
  ELSE IF Max(src_len, dest_len) = 0 /\ ~(has_src /\ has_dest)
    THEN "BadTransferSize"
  ELSE "Ok"

\* ready_writey_check without the comparison with the locked device.
ready_writey_check_nolock(lh, device_index, has_src, src_len, has_dest, dest_len) ==
  IF device_index >= NumDevices THEN "BadDevice"
  ELSE IF ~has_src /\ ~has_dest THEN "panic"
  ELSE IF Max(src_len, dest_len) = 0 THEN "BadTransferSize"
  ELSE "Ok"

\* ready_writey: the request-level checks, in the order of the code.
ready_writey_check(lh, device_index, has_src, src_len, has_dest, dest_len) ==
  IF lh.some /\ lh.device_index # device_index THEN "BadDevice"
  ELSE IF device_index >= NumDevices THEN "BadDevice"
  ELSE IF ~has_src /\ ~has_dest THEN "panic"
  ELSE IF Max(src_len, dest_len) = 0 THEN "BadTransferSize"
  ELSE "Ok"

\* The hardware calls of ready_writey are written down as triples
\* << call, argument, argument >>; GpioCall and SpiCall are what one call
\* does to the pins and to the SPI block, ExecGpio and ExecSpi run a
\* sequence of calls in order.
GpioCall(g, op) ==
  CASE op[1] = "deactivate_mux_option" ->
         deactivate_mux_option(g, MuxOption(op[2]))
    [] op[1] = "activate_mux_option" ->
         activate_mux_option(g, MuxOption(op[2]))
    [] op[1] = "cs_assert" -> set_reset(g, {}, {Device(op[2]).cs})
    [] op[1] = "cs_deassert" -> set_reset(g, {Device(op[2]).cs}, {})
    [] OTHER -> g

SpiCall(s, op) ==
  CASE op[1] = "activate_mux_option" ->
         Spi_set_data_line_swap(s, MuxOption(op[2]).swap_data)
    [] op[1] = "enable" -> Spi_enable(s, op[2], op[3])
    [] op[1] = "start" -> Spi_start(s)
    [] op[1] = "enable_transfer_interrupts" ->
         Spi_enable_transfer_interrupts(s)
    [] op[1] = "clear_eot" -> Spi_clear_eot(s)
    [] op[1] = "end" -> Spi_end(s)
    [] OTHER -> s

RECURSIVE ExecGpio(_, _)
ExecGpio(g, ops) ==
  IF ops = << >> THEN g ELSE ExecGpio(GpioCall(g, Head(ops)), Tail(ops))

RECURSIVE ExecSpi(_, _)
ExecSpi(s, ops) ==
  IF ops = << >> THEN s ELSE ExecSpi(SpiCall(s, Head(ops)), Tail(ops))

\* route_log switching the mux on every transfer.
route_log_always(cur, device) ==
  << << "deactivate_mux_option", cur, 0 >>,
     << "activate_mux_option", device.mux_index, 0 >> >>

\* route_log activating the new option and leaving the current one active.
route_log_no_deactivate(cur, device) ==
  IF device.mux_index # cur
  THEN << << "activate_mux_option", device.mux_index, 0 >> >>
  ELSE << >>

\* route_log activating the new option before deactivating the current one.
route_log_activate_first(cur, device) ==
  IF device.mux_index # cur
  THEN << << "activate_mux_option", device.mux_index, 0 >>,
          << "deactivate_mux_option", cur, 0 >> >>
  ELSE << >>

\* ready_writey: the calls that switch the mux to the requested port.
route_log(cur, device) ==
  IF device.mux_index # cur
  THEN << << "deactivate_mux_option", cur, 0 >>,
          << "activate_mux_option", device.mux_index, 0 >> >>
  ELSE << >>

\* ready_writey: switch the mux to the requested port (pins).
route_gpio(g, cur, device) == ExecGpio(g, route_log(cur, device))

\* ready_writey: switch the mux to the requested port (data line swap).
route_spi(s, cur, device) == ExecSpi(s, route_log(cur, device))

\* prime_log clearing the end-of-transaction flag before the interrupts
\* are enabled.
prime_log_clear_first(overall_len, device) ==
  << << "enable", overall_len, device.clock_divider >>, << "start", 0, 0 >>,
     << "clear_eot", 0, 0 >>, << "enable_transfer_interrupts", 0, 0 >> >>

\* ready_writey: enable, start, enable_transfer_interrupts, clear_eot.
prime_log(overall_len, device) ==
  << << "enable", overall_len, device.clock_divider >>, << "start", 0, 0 >>,
     << "enable_transfer_interrupts", 0, 0 >>, << "clear_eot", 0, 0 >> >>

prime_spi(s, overall_len, device) ==
  ExecSpi(s, prime_log(overall_len, device))

\* auto_cs_assert leaving CS alone.
auto_cs_assert_never(g, cs_override, device) == g

\* auto_cs_assert asserting CS under a lock too.
auto_cs_assert_always(g, cs_override, device) ==
  set_reset(g, {}, {device.cs})

\* ready_writey: assert CS unless a lock holder controls it.
auto_cs_assert(g, cs_override, device) ==
  IF ~cs_override THEN set_reset(g, {}, {device.cs}) ELSE g

\* ready_writey: deassert (set) CS unless a lock holder controls it.
auto_cs_deassert(g, cs_override, device) ==
  IF ~cs_override THEN set_reset(g, {device.cs}, {}) ELSE g

\* The locals at the top of the pump loop.
pump_locals(device_index, has_src, src_len, has_dest, dest_len, cs_override) ==
  [overall_len |-> Max(src_len, dest_len), src_len |-> src_len,
   dest_len |-> dest_len, device_index |-> device_index,
   tx |-> has_src, tx_fetched |-> 0, rx |-> has_dest, rx_buf |-> << >>,
   rx_pos |-> 0, tx_permits |-> TX_PERMITS, tx_count |-> 0, rx_count |-> 0,
   made_progress |-> FALSE, cs_override |-> cs_override]

ready_writey(t, op, device_index, has_src, src, has_dest, dest_len) ==
  /\ CanReceive(t)
  /\ LET src_len == Len(src)
         res == ready_writey_check(lock_holder, device_index, has_src,
                                   src_len, has_dest, dest_len)
         r == TransferRequest(t, op, device_index, has_src, src,
                              has_dest, dest_len)
     IN
       IF res = "Ok"
       THEN LET device == Device(device_index)
                overall_len == Max(src_len, dest_len)
                cs_override == lock_holder.some
            IN
              /\ Dispatched(r, "none")
              /\ gpio' = auto_cs_assert(
                           route_gpio(gpio, current_mux_index, device),
                           cs_override, device)
              /\ spi' = prime_spi(route_spi(spi, current_mux_index, device),
                                  overall_len, device)
              /\ current_mux_index' = device.mux_index
              /\ loc' = pump_locals(device_index, has_src, src_len,
                                    has_dest, dest_len, cs_override)
              /\ oplog' = route_log(current_mux_index, device)
                          \o prime_log(overall_len, device)
                          \o (IF cs_override THEN << >>
                              ELSE << << "cs_assert", device_index, 0 >> >>)
              /\ dest' = << >>
              /\ wire_tx' = << >>
              /\ wire_rx' = << >>
              /\ rx_taken' = << >>
              /\ pc' = "pump_tx"
       ELSE /\ Dispatched(r, IF res = "panic" THEN "none" ELSE res)
            /\ pc' = IF res = "panic" THEN "panicked" ELSE "reply"
            /\ NoTransfer
            /\ UNCHANGED << gpio, spi, current_mux_index >>
  /\ UNCHANGED lock_holder
  /\ UNCHANGED << config, sequencer, controller >>

\* InOrderSpiImpl::read / write / exchange
read(t, device_index, dest_len) ==
  ready_writey(t, "read", device_index, FALSE, << >>, TRUE, dest_len)
write(t, device_index, src) ==
  ready_writey(t, "write", device_index, TRUE, src, FALSE, 0)
exchange(t, device_index, src, dest_len) ==
  ready_writey(t, "exchange", device_index, TRUE, src, TRUE, dest_len)

\* The caller's leases can still be read and written.
LeaseOk == TaskAlive(req.task)

\* tx_reader.read().unwrap_or(0): LeaseBufReader fetches the lease in chunks
\* of BUFSIZ; past the end, or with the client gone, the read fails.
tx_reader_read(l, src, lease_ok) ==
  IF l.tx_count < l.tx_fetched
    THEN [byte |-> src[l.tx_count + 1], fetched |-> l.tx_fetched]
  ELSE IF l.tx_count >= l.src_len \/ ~lease_ok
    THEN [byte |-> 0, fetched |-> l.tx_fetched]
  ELSE [byte |-> src[l.tx_count + 1],
        fetched |-> Min(l.tx_count + BUFSIZ, l.src_len)]

\* rx_reader_write that never runs off the end of the lease.
rx_reader_write_nodiscard(l, d, b, lease_ok) ==
  [rx_buf |-> Append(l.rx_buf, b), rx_pos |-> l.rx_pos, dest |-> d]

\* rx_reader_write taking one byte more than the lease holds.
rx_reader_write_offbyone(l, d, b, lease_ok) ==
  IF l.rx_pos + Len(l.rx_buf) > l.dest_len
    THEN [rx_buf |-> l.rx_buf, rx_pos |-> l.rx_pos, dest |-> d]
  ELSE IF Len(l.rx_buf) + 1 = BUFSIZ
    THEN [rx_buf |-> << >>, rx_pos |-> l.rx_pos + BUFSIZ,
          dest |-> IF lease_ok THEN d \o Append(l.rx_buf, b) ELSE d]
  ELSE [rx_buf |-> Append(l.rx_buf, b), rx_pos |-> l.rx_pos, dest |-> d]

\* rx_reader.write(b).ok(): LeaseBufWriter buffers BUFSIZ bytes and writes
\* them to the lease when full; off the end the byte is discarded.
rx_reader_write(l, d, b, lease_ok) ==
  IF l.rx_pos + Len(l.rx_buf) >= l.dest_len
    THEN [rx_buf |-> l.rx_buf, rx_pos |-> l.rx_pos, dest |-> d]
  ELSE IF Len(l.rx_buf) + 1 = BUFSIZ
    THEN [rx_buf |-> << >>, rx_pos |-> l.rx_pos + BUFSIZ,
          dest |-> IF lease_ok THEN d \o Append(l.rx_buf, b) ELSE d]
  ELSE [rx_buf |-> Append(l.rx_buf, b), rx_pos |-> l.rx_pos, dest |-> d]

\* Dropping the LeaseBufWriter writes what is still buffered.
rx_reader_drop(l, d, lease_ok) ==
  IF l.rx /\ lease_ok THEN d \o l.rx_buf ELSE d

\* tx_continue without the backpressure budget.
tx_continue_nobudget(l, s) ==
  l.tx_count < l.overall_len /\ Spi_can_tx_frame(s)

\* The inner transmit loop runs once more.
tx_continue(l, s) ==
  l.tx_count < l.overall_len /\ l.tx_permits > 0 /\ Spi_can_tx_frame(s)

\* pump_continue leaving the pump loop one byte early.
pump_continue_short(l) == l.rx_count + 1 < l.overall_len

\* while rx_count != overall_len
pump_continue(l) == l.rx_count # l.overall_len

\* tx_done never seeing the end of the transmission.
tx_done_never(l) == FALSE

\* if tx_count == overall_len { disable_can_tx_interrupt(); tx = None }
tx_done(l) == l.tx_count = l.overall_len

\* One step of "if let Some(tx_reader) = &mut tx { while ... }".
PumpTx ==
  /\ pc = "pump_tx"
  /\ IF loc.tx /\ tx_continue(loc, spi)
     THEN LET rd == tx_reader_read(loc, req.src, LeaseOk) IN
            /\ spi' = Spi_send8(spi, rd.byte)
            /\ loc' = [loc EXCEPT !.tx_fetched = rd.fetched,
                                  !.tx_permits = @ - 1,
                                  !.tx_count = @ + 1,
                                  !.made_progress = TRUE]
            /\ pc' = "pump_tx"
     ELSE IF loc.tx /\ tx_done(loc)
     THEN /\ spi' = Spi_disable_can_tx_interrupt(spi)
          /\ loc' = [loc EXCEPT !.tx = FALSE]
          /\ pc' = "pump_rx"
     ELSE /\ pc' = "pump_rx"
          /\ UNCHANGED << spi, loc >>
  /\ UNCHANGED << lock_holder, current_mux_index, gpio, dest, req,
                  reply, wire_tx, wire_rx, rx_taken, oplog >>
  /\ UNCHANGED << config, sequencer, controller >>

\* overrun_fatal ignoring the overrun flag.
overrun_fatal_never(s) == FALSE

\* if self.spi.check_overrun() { panic!(); }
overrun_fatal(s) == Spi_check_overrun(s)

\* no_progress never asking for a suspension.
no_progress_never(l) == FALSE

\* if !made_progress && rx_count != overall_len
no_progress(l) == ~l.made_progress /\ l.rx_count # l.overall_len

\* rx_overflow halting on the last expected byte.
rx_overflow_early(l) == l.rx_count + 1 = l.overall_len

\* rx_overflow never seeing a byte too many.
rx_overflow_never(l) == FALSE

\* if rx_count == overall_len { panic!() }
rx_overflow(l) == l.rx_count = l.overall_len

\* One step of "while self.spi.can_rx_byte() { ... }" and, when the receive
\* FIFO is empty, the end of the pass.
PumpRx ==
  /\ pc = "pump_rx"
  /\ IF Spi_can_rx_byte(spi)
     THEN IF rx_overflow(loc)
          THEN /\ pc' = "panicked"
               /\ UNCHANGED << spi, loc, dest, rx_taken >>
          ELSE LET b == Head(spi.rxfifo)
                   w == rx_reader_write(loc, dest, b, LeaseOk)
               IN
                 /\ spi' = Spi_recv8(spi)
                 /\ rx_taken' = Append(rx_taken, b)
                 /\ loc' = [loc EXCEPT
                              !.rx_count = @ + 1,
                              !.tx_permits = @ + 1,
                              !.rx_buf = IF loc.rx THEN w.rx_buf ELSE @,
                              !.rx_pos = IF loc.rx THEN w.rx_pos ELSE @,
                              !.made_progress = TRUE]
                 /\ dest' = IF loc.rx THEN w.dest ELSE dest
                 /\ pc' = "pump_rx"
     ELSE /\ UNCHANGED << spi, dest, rx_taken >>
          /\ IF no_progress(loc)
             THEN /\ pc' = IF overrun_fatal(spi) THEN "panicked"
                           ELSE "pump_wait"
                  /\ loc' = loc
             ELSE IF pump_continue(loc)
             THEN /\ pc' = "pump_tx"
                  /\ loc' = [loc EXCEPT !.made_progress = FALSE]
             ELSE /\ pc' = "drain_wait"
                  /\ loc' = loc
  /\ UNCHANGED << lock_holder, current_mux_index, gpio, req, reply,
                  wire_tx, wire_rx, oplog >>
  /\ UNCHANGED << config, sequencer, controller >>

\* PumpWake taking the wake-up for the arrival of a byte.
PumpWake_trusting ==
  /\ pc = "pump_wait"
  /\ pc' = "pump_tx"
  /\ loc' = [loc EXCEPT !.made_progress = FALSE, !.rx_count = @ + 1]
  /\ UNCHANGED << lock_holder, current_mux_index, gpio, spi, dest, req,
                  reply, wire_tx, wire_rx, rx_taken, oplog >>
  /\ UNCHANGED << config, sequencer, controller >>

\* sys_recv_closed returns in the pump loop: the notification was posted.
PumpWake ==
  /\ pc = "pump_wait"
  /\ pc' = "pump_tx"
  /\ loc' = [loc EXCEPT !.made_progress = FALSE]
  /\ UNCHANGED << lock_holder, current_mux_index, gpio, spi, dest, req,
                  reply, wire_tx, wire_rx, rx_taken, oplog >>
  /\ UNCHANGED << config, sequencer, controller >>

\* drain_done trusting the wake-up instead of the flag.
drain_done_always(s) == TRUE

\* if self.spi.check_eot() { self.spi.clear_eot(); break; }
drain_done(s) == Spi_check_eot(s)

\* sys_recv_closed returns in the final loop; with the end of transaction
\* seen the transfer is wrapped up and the caller is answered.
DrainWake ==
  /\ pc = "drain_wait"
  /\ IF drain_done(spi)
     THEN /\ spi' = Spi_end(Spi_clear_eot(spi))
          /\ gpio' = auto_cs_deassert(gpio, loc.cs_override,
                                      Device(loc.device_index))
          /\ dest' = rx_reader_drop(loc, dest, LeaseOk)
          /\ oplog' = oplog \o << << "clear_eot", 0, 0 >>, << "end", 0, 0 >> >>
                      \o (IF loc.cs_override THEN << >>
                          ELSE << << "cs_deassert", loc.device_index, 0 >> >>)
          /\ reply' = "Ok"
          /\ pc' = "reply"
     ELSE UNCHANGED << spi, gpio, dest, oplog, reply, pc >>
  /\ UNCHANGED << lock_holder, current_mux_index, loc, req, wire_tx,
                  wire_rx, rx_taken >>
  /\ UNCHANGED << config, sequencer, controller >>

----------------------------------------------------------------------------
\* The environment: the bus and the client tasks.

\* The controller clocks one frame: a byte leaves the transmit FIFO and the
\* byte the device answers with enters the receive FIFO.
HwShift ==
  /\ spi.enabled /\ spi.started
  /\ spi.txfifo # << >>
  /\ spi.ctsize > 0
  /\ LET b == RxOf(Len(wire_rx) + 1) IN
       /\ spi' = [spi EXCEPT
                    !.txfifo = Tail(@),
                    !.rxfifo = IF Len(@) < FIFO_DEPTH THEN Append(@, b) ELSE @,
                    !.ovr = @ \/ Len(spi.rxfifo) >= FIFO_DEPTH,
                    !.ctsize = @ - 1,
                    !.eot = @ \/ spi.ctsize = 1]
       /\ wire_rx' = Append(wire_rx, b)
  /\ wire_tx' = Append(wire_tx, Head(spi.txfifo))
  /\ UNCHANGED << lock_holder, current_mux_index, gpio, pc, loc, dest,
                  req, reply, rx_taken, oplog >>
  /\ UNCHANGED << config, sequencer, controller >>

\* The task id after its task was restarted: an id of the restarted task
\* no longer names the running incarnation.
Aged(task, t) == IF task.index = t THEN [task EXCEPT !.old = TRUE] ELSE task

\* A client task dies and is restarted with the next generation: the ids
\* the server holds for it (lock holder, sender of the request) are stale.
ClientRestart(t) ==
  /\ lock_holder' = [lock_holder EXCEPT !.task = Aged(@, t)]
  /\ req' = [req EXCEPT !.task = Aged(@, t)]
  /\ UNCHANGED << current_mux_index, gpio, spi, pc, loc, dest, reply,
                  wire_tx, wire_rx, rx_taken, oplog >>
  /\ UNCHANGED << config, sequencer, controller >>

----------------------------------------------------------------------------

Next ==
  \/ \E t \in Clients, d \in DeviceIndices, n \in 0..MaxLen :
       read(t, d, n)
  \/ \E t \in Clients, d \in DeviceIndices, n \in 0..MaxLen :
       write(t, d, SrcOf(n))
  \/ \E t \in Clients, d \in DeviceIndices, n \in 0..MaxLen, m \in 0..MaxLen :
       exchange(t, d, SrcOf(n), m)
  \/ \E t \in Clients, d \in DeviceIndices, c \in {"Asserted", "Deasserted"} :
       lock(t, d, c)
  \/ \E t \in Clients : release(t)
  \/ closed_recv_fail
  \/ dispatch_loop
  \/ PumpTx
  \/ PumpRx
  \/ PumpWake
  \/ DrainWake
  \/ HwShift
  \/ \E t \in Clients : ClientRestart(t)

Spec == Init /\ [][Next]_vars

\* The controller's interrupt is pending: an enabled condition holds.
IrqPending(s) ==
  \/ s.txp_ie /\ Spi_can_tx_frame(s)
  \/ s.ie /\ (Spi_can_rx_byte(s) \/ s.eot \/ s.ovr)

\* The kernel posts the notification of a pending interrupt.
IrqWake == IrqPending(spi) /\ (PumpWake \/ DrainWake)

\* The server task runs whenever it is not blocked (a closed receive on a
\* dead task fails at once), the controller clocks the frames it has, and
\* a pending interrupt wakes the task.
FairSpec ==
  /\ Spec
  /\ WF_vars(PumpTx)
  /\ WF_vars(PumpRx)
  /\ WF_vars(IrqWake)
  /\ WF_vars(HwShift)
  /\ WF_vars(dispatch_loop)
  /\ WF_vars(closed_recv_fail)

----------------------------------------------------------------------------
\* Long transfers: one client, device 0, no lock, with lengths past the
\* backpressure budget (TX_PERMITS) and past the lease buffers (BUFSIZ).

PumpMaxLen == 34

LongLens == {1, PumpMaxLen - 1, PumpMaxLen}

PumpNext ==
  \/ \E n \in LongLens : read(1, 0, n)
  \/ \E n \in LongLens : write(1, 0, SrcOf(n))
  \/ \E n \in LongLens, m \in LongLens : exchange(1, 0, SrcOf(n), m)
  \/ dispatch_loop
  \/ PumpTx
  \/ PumpRx
  \/ PumpWake
  \/ DrainWake
  \/ HwShift

PumpSpec == Init /\ [][PumpNext]_vars

----------------------------------------------------------------------------
\* The mux controller on its own: activate_mux_option and
\* deactivate_mux_option called, in any order, on pins in any prior state.

MaxMuxCalls == 2

PinStates ==
  [mode : {"Input", "Output", "Alternate"}, odr : {0, 1},
   otype : {"PushPull", "OpenDrain"}, pull : {"None", "Up"}]

PinsOf(m) ==
  UNION {MuxOption(m).outputs[k] : k \in 1..Len(MuxOption(m).outputs)}
  \cup {MuxOption(m).input}

MuxInit ==
  /\ \E m \in 0..(NumMuxOptions - 1) : \E f \in [PinsOf(m) -> PinStates] :
       gpio = [p \in AllPins |-> IF p \in PinsOf(m) THEN f[p]
                                 ELSE StartupGpio[p]]
  /\ spi \in {[StartupSpi EXCEPT !.swap = b] : b \in BOOLEAN}
  /\ pc = "mux"
  /\ oplog = << >>
  /\ lock_holder = None
  /\ current_mux_index = 0
  /\ loc = NoLocals
  /\ dest = << >>
  /\ req = NoRequest
  /\ reply = "none"
  /\ wire_tx = << >>
  /\ wire_rx = << >>
  /\ rx_taken = << >>
  /\ config = CONFIG
  /\ sequencer = SequencerStartup
  /\ controller = ControllerReset

MuxActivate(m) ==
  /\ pc = "mux"
  /\ Len(oplog) < MaxMuxCalls
  /\ gpio' = activate_mux_option(gpio, MuxOption(m))
  /\ spi' = Spi_set_data_line_swap(spi, MuxOption(m).swap_data)
  /\ oplog' = Append(oplog, << "activate_mux_option", m, 0 >>)
  /\ UNCHANGED << lock_holder, current_mux_index, pc, loc, dest, req, reply,
                  wire_tx, wire_rx, rx_taken >>
  /\ UNCHANGED << config, sequencer, controller >>

MuxDeactivate(m) ==
  /\ pc = "mux"
  /\ Len(oplog) < MaxMuxCalls
  /\ gpio' = deactivate_mux_option(gpio, MuxOption(m))
  /\ oplog' = Append(oplog, << "deactivate_mux_option", m, 0 >>)
  /\ UNCHANGED << lock_holder, current_mux_index, spi, pc, loc, dest, req,
                  reply, wire_tx, wire_rx, rx_taken >>
  /\ UNCHANGED << config, sequencer, controller >>

MuxNext ==
  \/ \E m \in 0..(NumMuxOptions - 1) : MuxActivate(m)
  \/ \E m \in 0..(NumMuxOptions - 1) : MuxDeactivate(m)

MuxSpec == MuxInit /\ [][MuxNext]_vars

----------------------------------------------------------------------------
\* Startup on its own: main() run on the pins a previous run left behind.

\* What a previous run can have left on a pin.
PriorPinStates ==
  {[mode |-> "Alternate", odr |-> 0, otype |-> "PushPull", pull |-> "None"],
   [mode |-> "Output", odr |-> 0, otype |-> "PushPull", pull |-> "None"],
   [mode |-> "Output", odr |-> 1, otype |-> "PushPull", pull |-> "None"],
   [mode |-> "Input", odr |-> 0, otype |-> "PushPull", pull |-> "None"]}

CsPins == {Device(d).cs : d \in 0..(NumDevices - 1)}

BootInit ==
  /\ gpio \in [AllPins -> PriorPinStates]
  /\ spi \in {[StartupSpi EXCEPT !.swap = b] : b \in BOOLEAN}
  /\ pc = "boot"
  /\ oplog = << >>
  /\ lock_holder = None
  /\ current_mux_index = 0
  /\ loc = NoLocals
  /\ dest = << >>
  /\ req = NoRequest
  /\ reply = "none"
  /\ wire_tx = << >>
  /\ wire_rx = << >>
  /\ rx_taken = << >>
  /\ config = CONFIG
  /\ sequencer = SequencerStartup
  /\ controller = ControllerReset

\* main: every chip-select set (deasserted) and configured as an output.
BootCs ==
  /\ pc = "boot"
  /\ gpio' = configure(set_reset(gpio, CsPins, {}), CsPins, "Output")
  /\ pc' = "boot_mux"
  /\ UNCHANGED << lock_holder, current_mux_index, spi, loc, dest, req,
                  reply, wire_tx, wire_rx, rx_taken, oplog >>
  /\ UNCHANGED << config, sequencer, controller >>

\* boot_log activating option 0 without deactivating the others.
boot_log_no_deactivate == << << "activate_mux_option", 0, 0 >> >>

\* main: deactivate mux_options[1..], then activate mux_options[0].
boot_log ==
  [m \in 1..(NumMuxOptions - 1) |-> << "deactivate_mux_option", m, 0 >>]
  \o << << "activate_mux_option", 0, 0 >> >>

\* main: the mux is set up, the server is built and dispatch is entered.
BootMux ==
  /\ pc = "boot_mux"
  /\ gpio' = ExecGpio(gpio, boot_log)
  /\ spi' = ExecSpi(spi, boot_log)
  /\ oplog' = boot_log
  /\ lock_holder' = None
  /\ current_mux_index' = 0
  /\ pc' = "recv"
  /\ UNCHANGED << loc, dest, req, reply, wire_tx, wire_rx, rx_taken >>
  /\ UNCHANGED << config, sequencer, controller >>

BootNext ==
  \/ BootCs
  \/ BootMux

BootSpec == BootInit /\ [][BootNext]_vars

----------------------------------------------------------------------------
\* The startup validator on its own: check_server_config run on a table.

\* Bounds of the tables: entries of mux_options and of devices, output groups
\* of one mux option, bits of a pin mask.
MaxEntries == 2
MaxGroups == 2
MaskBits == 2

Ports == {"A", "B"}
Masks == 0..(2^MaskBits - 1)
PinSets == [port : Ports, pin_mask : Masks]
SeqsUpTo(S, n) == UNION {[1..k -> S] : k \in 0..n}

\* The input pin is on port A: only whether a group shares its port matters.
MuxOptions == [outputs : SeqsUpTo(PinSets, MaxGroups), input : [port : {"A"}, pin_mask : Masks \ {2}]]
Devices == [mux_index : 0..MaxEntries, cs : [port : {"A"}, pin_mask : Masks \ {2}]]

MuxTables == SeqsUpTo(MuxOptions, MaxEntries)
DeviceTables == SeqsUpTo(Devices, MaxEntries)

\* u16::count_ones
RECURSIVE count_ones(_)
count_ones(n) == IF n = 0 THEN 0 ELSE (n % 2) + count_ones(n \div 2)

\* a & b on unsigned integers
RECURSIVE BitAnd(_, _)
BitAnd(a, b) ==
  IF a = 0 \/ b = 0 THEN 0
  ELSE (IF a % 2 = 1 /\ b % 2 = 1 THEN 1 ELSE 0)
       + 2 * BitAnd(a \div 2, b \div 2)

\* u16::is_power_of_two
is_power_of_two(n) == count_ones(n) = 1

\* The loop over muxopt.outputs from group k on: the pin total it reaches, or
\* -1 when one of its assertions fails.
RECURSIVE check_outputs(_, _, _)
check_outputs(muxopt, k, total_pins) ==
  IF k > Len(muxopt.outputs) THEN total_pins
  ELSE LET pinset == muxopt.outputs[k] IN
       IF pinset.pin_mask = 0 THEN -1
       ELSE IF /\ pinset.port = muxopt.input.port
               /\ BitAnd(pinset.pin_mask, muxopt.input.pin_mask) # 0
            THEN -1
       ELSE check_outputs(muxopt, k + 1,
                          total_pins + count_ones(pinset.pin_mask))

\* The body of the loop over CONFIG.mux_options: TRUE when no assertion
\* fails.
check_mux_option(muxopt) ==
  /\ muxopt.outputs # << >>
  /\ check_outputs(muxopt, 1, 0) = 2
  /\ count_ones(muxopt.input.pin_mask) = 1

\* check_device accepting a mux index one past the table.
check_device_offbyone(cfg, dev) ==
  /\ dev.mux_index <= Len(cfg.mux_options)
  /\ is_power_of_two(dev.cs.pin_mask)

\* The body of the loop over CONFIG.devices.
check_device(cfg, dev) ==
  /\ dev.mux_index < Len(cfg.mux_options)
  /\ is_power_of_two(dev.cs.pin_mask)

\* The loops of check_server_config from entry i on.
RECURSIVE check_mux_options(_, _)
check_mux_options(cfg, i) ==
  IF i > Len(cfg.mux_options) THEN TRUE
  ELSE IF ~check_mux_option(cfg.mux_options[i]) THEN FALSE
  ELSE check_mux_options(cfg, i + 1)

RECURSIVE check_devices(_, _)
check_devices(cfg, i) ==
  IF i > Len(cfg.devices) THEN TRUE
  ELSE IF ~check_device(cfg, cfg.devices[i]) THEN FALSE
  ELSE check_devices(cfg, i + 1)

\* check_server_config: TRUE when it returns, FALSE when an assertion
\* panics.
check_server_config(cfg) ==
  IF cfg.registers = "null" THEN FALSE
  ELSE IF cfg.mux_options = << >> THEN FALSE
  ELSE IF ~check_mux_options(cfg, 1) THEN FALSE
  ELSE IF cfg.devices = << >> THEN FALSE
  ELSE check_devices(cfg, 1)

\* Every table within the bounds in which at most one of the two lists has
\* more than one entry.
ConfigInit ==
  /\ \E r \in {"null", "SPI"} : \E m \in MuxTables : \E d \in DeviceTables :
       /\ Len(m) <= 1 \/ Len(d) <= 1
       /\ config = [registers |-> r, mux_options |-> m, devices |-> d]
  /\ pc = "main"
  /\ lock_holder = None
  /\ current_mux_index = 0
  /\ gpio = StartupGpio
  /\ spi = StartupSpi
  /\ loc = NoLocals
  /\ dest = << >>
  /\ req = NoRequest
  /\ reply = "none"
  /\ wire_tx = << >>
  /\ wire_rx = << >>
  /\ rx_taken = << >>
  /\ oplog = << >>
  /\ sequencer = SequencerStartup
  /\ controller = ControllerReset

\* main: check_server_config() is the first statement; a failed assertion
\* panics the task, a pass goes on to set the hardware up.
ConfigCheck ==
  /\ pc = "main"
  /\ pc' = IF check_server_config(config) THEN "setup" ELSE "panic"
  /\ UNCHANGED << lock_holder, current_mux_index, gpio, spi, loc, dest, req,
                  reply, wire_tx, wire_rx, rx_taken, oplog, config,
                  sequencer, controller >>

\* The supervisor restarts the panicked task: main runs again on the same
\* table.
ConfigRestart ==
  /\ pc = "panic"
  /\ pc' = "main"
  /\ UNCHANGED << lock_holder, current_mux_index, gpio, spi, loc, dest, req,
                  reply, wire_tx, wire_rx, rx_taken, oplog, config,
                  sequencer, controller >>

ConfigNext ==
  \/ ConfigCheck
  \/ ConfigRestart

ConfigSpec == ConfigInit /\ [][ConfigNext]_vars

----------------------------------------------------------------------------
\* The sidecar sequencer server (drv/sidecar-seq-server).

\* Bound on the number of requests of one behaviour.
MaxSeqCalls == 3

\* PowerState, as far as set_state distinguishes it.
PowerStates == {"A2", "A0"}

\* Values read from the TOFINO_VID register: the two ends of the valid
\* range and one value outside it.
VidReadings == {15, 8, 0}

\* TOFINO_SEQ_STATE from which the VID bits are valid.
VID_VALID == 9

\* get_tofino_vid: the match on the register value.
get_tofino_vid(raw) ==
  CASE raw = 15 -> "V0P915"
    [] raw = 14 -> "V0P885"
    [] raw = 13 -> "V0P860"
    [] raw = 12 -> "V0P840"
    [] raw = 11 -> "V0P825"
    [] raw = 10 -> "V0P810"
    [] raw = 9 -> "V0P785"
    [] raw = 8 -> "V0P755"
    [] OTHER -> "Invalid"

SeqInit ==
  /\ sequencer = SequencerStartup
  /\ controller = ControllerReset
  /\ pc = "seq_recv"
  /\ oplog = << >>
  /\ lock_holder = None
  /\ current_mux_index = 0
  /\ gpio = StartupGpio
  /\ spi = StartupSpi
  /\ loc = NoLocals
  /\ dest = << >>
  /\ req = NoRequest
  /\ reply = "none"
  /\ wire_tx = << >>
  /\ wire_rx = << >>
  /\ rx_taken = << >>
  /\ config = CONFIG

\* get_state: Ok(self.state). The call and its result are logged.
get_state ==
  /\ pc = "seq_recv"
  /\ Len(oplog) < MaxSeqCalls
  /\ oplog' = Append(oplog, << "get_state", sequencer.state, "Ok" >>)
  /\ UNCHANGED << lock_holder, current_mux_index, gpio, spi, pc, loc, dest,
                  req, reply, wire_tx, wire_rx, rx_taken, config, sequencer,
                  controller >>

\* set_state up to its first wait or its return: the match on
\* (self.state, state).
set_state(state) ==
  /\ pc = "seq_recv"
  /\ Len(oplog) < MaxSeqCalls
  /\ IF sequencer.state = "A2" /\ state = "A0"
     THEN /\ controller' = [controller EXCEPT !.TOFINO_EN = 1]
          /\ pc' = "seq_wait"
          /\ UNCHANGED oplog
     ELSE IF sequencer.state = "A0" /\ state = "A2"
     THEN /\ controller' = [controller EXCEPT !.TOFINO_EN = 0]
          /\ oplog' = Append(oplog, << "set_state", state, "Ok" >>)
          /\ UNCHANGED pc
     ELSE /\ oplog' =
               Append(oplog, << "set_state", state, "IllegalTransition" >>)
          /\ UNCHANGED << controller, pc >>
  /\ UNCHANGED << lock_holder, current_mux_index, gpio, spi, loc, dest, req,
                  reply, wire_tx, wire_rx, rx_taken, config, sequencer >>

\* set_state, A2 to A0, once the sequencing state shows the VID bits valid:
\* the VID is sampled and applied, which panics on an invalid one, and the
\* state becomes A0.
set_state_powered ==
  /\ pc = "seq_wait"
  /\ controller.TOFINO_SEQ_STATE >= VID_VALID
  /\ \E raw \in VidReadings :
       LET vid == get_tofino_vid(raw) IN
       IF vid = "Invalid"
       THEN /\ pc' = "seq_panic"
            /\ sequencer' = [sequencer EXCEPT !.vid = vid]
            /\ oplog' = Append(oplog, << "set_state", "A0", "Dead" >>)
       ELSE /\ pc' = "seq_recv"
            /\ sequencer' = [state |-> "A0", vid |-> vid]
            /\ oplog' = Append(oplog, << "set_state", "A0", "Ok" >>)
  /\ UNCHANGED << lock_holder, current_mux_index, gpio, spi, loc, dest, req,
                  reply, wire_tx, wire_rx, rx_taken, config, controller >>

\* The supervisor restarts the panicked sequencer: main builds the server
\* again; the FPGA keeps its registers.
SeqRestart ==
  /\ pc = "seq_panic"
  /\ pc' = "seq_recv"
  /\ sequencer' = SequencerStartup
  /\ UNCHANGED << lock_holder, current_mux_index, gpio, spi, loc, dest, req,
                  reply, wire_tx, wire_rx, rx_taken, oplog, config,
                  controller >>

\* The FPGA sequences the Tofino up while it is enabled and back down to 0
\* while it is not.
FpgaSequence ==
  /\ \/ /\ controller.TOFINO_EN = 1
        /\ controller.TOFINO_SEQ_STATE < VID_VALID
        /\ controller' = [controller EXCEPT !.TOFINO_SEQ_STATE = @ + 1]
     \/ /\ controller.TOFINO_EN = 0
        /\ controller.TOFINO_SEQ_STATE > 0
        /\ controller' = [controller EXCEPT !.TOFINO_SEQ_STATE = 0]
  /\ UNCHANGED << lock_holder, current_mux_index, gpio, spi, pc, loc, dest,
                  req, reply, wire_tx, wire_rx, rx_taken, oplog, config,
                  sequencer >>

SeqNext ==
  \/ get_state
  \/ \E state \in PowerStates : set_state(state)
  \/ set_state_powered
  \/ SeqRestart
  \/ FpgaSequence

SeqSpec == SeqInit /\ [][SeqNext]_vars

----------------------------------------------------------------------------
\* Vocabulary of the properties.

IsTransfer(r) == r.kind \in {"read", "write", "exchange"}
InFlight == pc \in {"pump_tx", "pump_rx", "pump_wait", "drain_wait"}
\* The transfer in hand has completed and its reply is success.
Completed == pc = "reply" /\ IsTransfer(req) /\ reply = "Ok"
OverallLen(r) == Max(Len(r.src), r.dest_len)
\* The first n bytes of the source, zero-padded to n.
PadTo(src, n) == [i \in 1..n |-> IF i <= Len(src) THEN src[i] ELSE 0]
Prefix(q, n) == SubSeq(q, 1, Min(n, Len(q)))
\* The level of every chip-select line.
CsLevels(g) == [d \in 0..(NumDevices - 1) |-> g[CsPin(d)].odr]
\* The step dispatches a request of this kind.
Dispatches(kinds) == pc = "recv" /\ req'.kind \in kinds
\* The step accepts a transfer: validation passed, the bus is set up.
Accepts == Idle /\ IsTransfer(req') /\ pc' = "pump_tx"
\* The pins of the mux options (every pin but the chip-selects).
MuxPins == {p \in AllPins : p[1] # "cs"}
OutputPins(m) ==
  UNION {MuxOption(m).outputs[k] : k \in 1..Len(MuxOption(m).outputs)}
IsMuxCall(op) == op[1] \in {"deactivate_mux_option", "activate_mux_option"}
\* The calls of a sequence that are not mux calls.
NotMuxCall(op) == ~IsMuxCall(op)
PrimingCalls(log) == SelectSeq(log, NotMuxCall)
\* The positions of a call in a sequence of calls.
Calls(log, name) == {i \in 1..Len(log) : log[i][1] = name}

----------------------------------------------------------------------------
\* A bus that can misbehave: while a transfer is in flight the controller
\* may offer a byte that no frame accounts for, and may flag an overrun.

ExtraByte == 255

MaxExtra == 1

\* The bytes of a queue that no frame accounts for.
ExtraCount(q) == Cardinality({i \in 1..Len(q) : q[i] = ExtraByte})

HwExtraByte ==
  /\ InFlight
  /\ spi.enabled /\ spi.started
  /\ Len(spi.rxfifo) < FIFO_DEPTH
  /\ ExtraCount(spi.rxfifo) + ExtraCount(rx_taken) < MaxExtra
  /\ spi' = [spi EXCEPT !.rxfifo = Append(@, ExtraByte)]
  /\ UNCHANGED << lock_holder, current_mux_index, gpio, pc, loc, dest, req,
                  reply, wire_tx, wire_rx, rx_taken, oplog >>
  /\ UNCHANGED << config, sequencer, controller >>

HwOverrun ==
  /\ InFlight
  /\ spi.enabled /\ spi.started
  /\ ~spi.ovr
  /\ spi' = [spi EXCEPT !.ovr = TRUE]
  /\ UNCHANGED << lock_holder, current_mux_index, gpio, pc, loc, dest, req,
                  reply, wire_tx, wire_rx, rx_taken, oplog >>
  /\ UNCHANGED << config, sequencer, controller >>

\* One client, device 0, no lock.
FaultNext ==
  \/ \E n \in 0..MaxLen : read(1, 0, n)
  \/ \E n \in 0..MaxLen : write(1, 0, SrcOf(n))
  \/ \E n \in 0..MaxLen, m \in 0..MaxLen : exchange(1, 0, SrcOf(n), m)
  \/ dispatch_loop
  \/ PumpTx
  \/ PumpRx
  \/ PumpWake
  \/ DrainWake
  \/ HwShift
  \/ HwExtraByte
  \/ HwOverrun

FaultSpec == Init /\ [][FaultNext]_vars

----------------------------------------------------------------------------
\* C1: every validated read, write or exchange of overall_len N transmits
\* exactly N bytes on the bus, the source bytes in order and then zeros (a
\* pure read transmits N zero bytes) -- as long as its caller stays alive.
C1_TransmitsPadded ==
  (InFlight /\ IsTransfer(req))
    ~> (\/ ~LeaseOk
        \/ wire_tx = PadTo(req.src, OverallLen(req)))

\* C2 as stated: a completed transfer of overall_len N has taken N bytes from
\* the receive FIFO and delivered N bytes to the destination stream.
C2_DeliversN ==
  Completed /\ LeaseOk =>
    /\ rx_taken = wire_rx
    /\ Len(rx_taken) = OverallLen(req)
    /\ dest = rx_taken

\* C2 amended: a completed transfer of overall_len N has taken exactly the N
\* bytes the bus received, in order, from the receive FIFO, and the caller's
\* destination holds the first min(dest_len, N) of them, in order (none for
\* a write).
C2_DeliversUpToDestLen ==
  Completed =>
    /\ rx_taken = wire_rx
    /\ Len(rx_taken) = OverallLen(req)
    /\ LeaseOk => dest = Prefix(rx_taken, req.dest_len)

\* An exchange whose destination is shorter than its source has completed.
C2_Witness ==
  /\ Completed /\ LeaseOk
  /\ req.kind = "exchange"
  /\ 0 < req.dest_len /\ req.dest_len < Len(req.src)
  /\ Len(dest) = req.dest_len

\* C3 as stated: a transfer request with overall_len 0 is answered
\* BadTransferSize, whatever the device index and the lock state.
C3_ZeroAlwaysBadSize ==
  IsTransfer(req) /\ OverallLen(req) = 0 => reply = "BadTransferSize"

\* C3 amended: a transfer request with overall_len 0 is answered
\* BadTransferSize when its device index is in range and, with a lock held,
\* is the locked device; otherwise it is answered BadDevice.
C3_ZeroBadSizeOnValidDevice ==
  IsTransfer(req) /\ OverallLen(req) = 0 =>
    IF /\ req.device_index < NumDevices
       /\ req.was_locked => req.locked_dev = req.device_index
    THEN reply = "BadTransferSize"
    ELSE reply = "BadDevice"

\* A zero-length exchange to the locked device was refused.
C3_Witness ==
  /\ pc = "reply" /\ req.kind = "exchange" /\ OverallLen(req) = 0
  /\ req.was_locked /\ req.locked_dev = req.device_index
  /\ reply = "BadTransferSize"

\* C4: a read, write, exchange or lock request whose device index is not
\* below the number of configured devices is answered BadDevice, in every
\* lock state and for every length.
C4_OutOfRangeBadDevice ==
  /\ req.kind \in {"read", "write", "exchange", "lock"}
  /\ req.device_index >= NumDevices
  => reply = "BadDevice"

\* With a lock held, an out-of-range write of nonzero length was refused.
C4_Witness ==
  /\ pc = "reply" /\ req.kind = "write" /\ req.device_index >= NumDevices
  /\ Len(req.src) > 0 /\ req.was_locked /\ lock_holder.some
  /\ reply = "BadDevice"

\* C5: while a lock on device d is held, a read, write or exchange that
\* names another device is answered BadDevice.
C5_LockedOtherDeviceBadDevice ==
  /\ IsTransfer(req)
  /\ req.was_locked
  /\ req.device_index # req.locked_dev
  => /\ reply = "BadDevice"
     /\ lock_holder.some /\ lock_holder.device_index = req.locked_dev

\* With a lock held, a transfer to another configured device was refused.
C5_Witness ==
  /\ pc = "reply" /\ IsTransfer(req) /\ OverallLen(req) > 0
  /\ lock_holder.some
  /\ req.device_index < NumDevices
  /\ req.device_index # lock_holder.device_index
  /\ reply = "BadDevice"

\* C6: while a lock is held, serving a read, write or exchange to the locked
\* device changes no chip-select line, from the receipt of the request to
\* its reply; and no step other than a lock call of the holder changes one
\* while the lock stays held, so the locked device's line keeps the level
\* the holder's last lock call set.
C6_LockedTransferKeepsCs ==
  [][ /\ lock_holder.some /\ lock_holder'.some
      /\ ~Dispatches({"lock"})
      => CsLevels(gpio') = CsLevels(gpio) ]_vars

\* A transfer to the locked device has completed under a lock that holds
\* chip-select asserted.
C6_Witness ==
  /\ Completed
  /\ lock_holder.some /\ loc.cs_override
  /\ req.device_index = lock_holder.device_index
  /\ CsAsserted(gpio, req.device_index)

\* C7: release is answered NothingToRelease exactly when no lock is held;
\* with a lock held it sets (deasserts) the locked device's chip-select,
\* clears the lock and is answered success, so a release right after a
\* successful one is answered NothingToRelease.
C7_Release ==
  [][ Dispatches({"release"}) =>
        /\ lock_holder' = None
        /\ IF lock_holder.some
           THEN /\ reply' = "Ok"
                /\ ~CsAsserted(gpio', lock_holder.device_index)
           ELSE /\ reply' = "NothingToRelease"
                /\ gpio' = gpio ]_vars

\* A release has cleared a lock and left its chip-select deasserted.
C7_Witness ==
  /\ pc = "reply" /\ req.kind = "release" /\ reply = "Ok"
  /\ req.was_locked /\ ~lock_holder.some
  /\ ~CsAsserted(gpio, req.locked_dev)

\* C8: there is one lock at most, and from the moment it is taken until it
\* is released or cleared its owning task and device index do not change:
\* a successful lock call of the holder changes the chip-select level only.
C8_LockImmutable ==
  [][ lock_holder.some /\ lock_holder'.some =>
        /\ lock_holder'.device_index = lock_holder.device_index
        /\ lock_holder'.task.index = lock_holder.task.index
        /\ lock_holder.task.old => lock_holder'.task.old
        /\ Dispatches({"lock"}) =>
             /\ lock_holder' = lock_holder
             /\ \A p \in AllPins \ {CsPin(lock_holder.device_index)} :
                  gpio'[p] = gpio[p]
             /\ gpio'[CsPin(lock_holder.device_index)].mode
                  = gpio[CsPin(lock_holder.device_index)].mode
             /\ current_mux_index' = current_mux_index
             /\ spi' = spi ]_vars

\* The holder has re-issued lock on its device.
C8_Witness ==
  /\ pc = "reply" /\ req.kind = "lock" /\ reply = "Ok"
  /\ req.was_locked
  /\ lock_holder = SomeLock(req.task, req.locked_dev)
  /\ req.cs_state = "Deasserted"

\* C9: a successful lock(device_index, cs_state) leaves the lock held by the
\* caller for device_index and that device's chip-select low when cs_state
\* is Asserted and high when it is Deasserted; no other device's
\* chip-select changes.
C9_LockSetsCs ==
  [][ Dispatches({"lock"}) /\ reply' = "Ok" =>
        /\ lock_holder' = SomeLock(req'.task, req'.device_index)
        /\ req'.device_index < NumDevices
        /\ CsAsserted(gpio', req'.device_index)
             <=> req'.cs_state = "Asserted"
        /\ \A d \in 0..(NumDevices - 1) \ {req'.device_index} :
             gpio'[CsPin(d)] = gpio[CsPin(d)] ]_vars

\* A first lock call with chip-select asserted has succeeded.
C9_Witness ==
  /\ pc = "reply" /\ req.kind = "lock" /\ reply = "Ok"
  /\ ~req.was_locked
  /\ req.cs_state = "Asserted"
  /\ lock_holder = SomeLock(req.task, req.device_index)
  /\ CsAsserted(gpio, req.device_index)

\* C10: a lock call is answered BadDevice when the device index is out of
\* range or, with a lock held, names another device than the locked one; a
\* lock call that fails leaves the lock state and every chip-select line
\* unchanged.
C10_LockFailure ==
  [][ Dispatches({"lock"}) =>
        /\ (\/ req'.device_index >= NumDevices
            \/ lock_holder.some
                 /\ lock_holder.device_index # req'.device_index)
           => reply' = "BadDevice"
        /\ reply' # "Ok" =>
             /\ reply' = "BadDevice"
             /\ lock_holder' = lock_holder
             /\ gpio' = gpio ]_vars

\* The holder's lock call for another configured device was refused.
C10_Witness ==
  /\ pc = "reply" /\ req.kind = "lock" /\ reply = "BadDevice"
  /\ req.was_locked /\ lock_holder.some
  /\ req.device_index < NumDevices
  /\ req.device_index # lock_holder.device_index

\* C11: while a lock is held, every request the server dispatches was sent
\* by the lock holder (requests of other tasks are not received before the
\* lock is released or cleared), and the sender = holder assertions of lock
\* and release do not fail.
C11_LockedDispatchIsHolders ==
  [][ (Idle /\ lock_holder.some /\ req'.kind # "none") =>
        /\ req'.task = lock_holder.task
        /\ pc' # "panicked" ]_vars

\* With the lock held and a second client running, the holder's transfer
\* was dispatched and answered.
C11_Witness ==
  /\ pc = "reply" /\ IsTransfer(req) /\ reply = "Ok"
  /\ req.was_locked
  /\ lock_holder = SomeLock(req.task, req.device_index)
  /\ \E t \in Clients : TaskId(t) # lock_holder.task

\* C12: when the channel of the lock holder closes while it holds the lock,
\* the lock is eventually cleared (and the requests of the other callers
\* can be received again).
C12_CrashedHolderCleared ==
  (lock_holder.some /\ ~TaskAlive(lock_holder.task)) ~> ~lock_holder.some

\* C13: after a caller locked a device with chip-select asserted and its
\* channel closed without release, that chip-select is deasserted before the
\* next transfer with automatic chip-select begins: when a transfer is
\* accepted with no lock held, no chip-select line is still asserted.
C13_CsDeassertedBeforeAutoCs ==
  [][ (Idle /\ ~lock_holder.some /\ IsTransfer(req') /\ pc' = "pump_tx") =>
        \A d \in 0..(NumDevices - 1) : ~CsAsserted(gpio, d) ]_vars

\* C14: a validated transfer to a device whose mux_index equals the current
\* mux index calls neither deactivate_mux_option nor activate_mux_option,
\* changes no mux pin and no data line swap, and leaves current_mux_index
\* unchanged.
C14_SameMuxNoSwitch ==
  [][ (Accepts /\ Device(req'.device_index).mux_index = current_mux_index) =>
        /\ \A i \in 1..Len(oplog') : ~IsMuxCall(oplog'[i])
        /\ \A p \in MuxPins : gpio'[p] = gpio[p]
        /\ spi'.swap = spi.swap
        /\ current_mux_index' = current_mux_index ]_vars

\* A second transfer to the device of mux option 1 completed with option 1
\* already routed: its first hardware call was the bus enable.
C14_Witness ==
  /\ Completed
  /\ req.device_index = 2
  /\ current_mux_index = 1
  /\ oplog[1][1] = "enable"

\* C15: a validated transfer to a device whose mux_index differs from the
\* current one deactivates the current option exactly once, then activates
\* the device's option exactly once, in that order and before the bus is
\* enabled, and sets current_mux_index to the device's mux_index.
C15_OtherMuxSwitchesOnce ==
  [][ (Accepts /\ Device(req'.device_index).mux_index # current_mux_index) =>
        LET new == Device(req'.device_index).mux_index IN
          /\ Len(oplog') >= 3
          /\ oplog'[1] = << "deactivate_mux_option", current_mux_index, 0 >>
          /\ oplog'[2] = << "activate_mux_option", new, 0 >>
          /\ oplog'[3][1] = "enable"
          /\ Calls(oplog', "deactivate_mux_option") = {1}
          /\ Calls(oplog', "activate_mux_option") = {2}
          /\ current_mux_index' = new
          /\ \A p \in OutputPins(current_mux_index) :
                gpio'[p].mode = "Output" /\ gpio'[p].odr = 0
          /\ gpio'[MuxOption(current_mux_index).input].mode = "Input"
          /\ \A p \in OutputPins(new) \cup {MuxOption(new).input} :
                gpio'[p].mode = "Alternate"
          /\ spi'.swap = MuxOption(new).swap_data ]_vars

\* A transfer to the device of mux option 1 was accepted with option 0
\* routed, and the mux was switched.
C15_Witness ==
  /\ InFlight
  /\ req.device_index = 2
  /\ current_mux_index = 1
  /\ oplog[1] = << "deactivate_mux_option", 0, 0 >>

\* C16: for every mux option and every prior state of its pins, activating
\* the option and then deactivating it leaves each of its output pins driven
\* low in push-pull GPIO output mode and its input pin in GPIO input mode
\* with no pull.
C16_MuxRoundTrip ==
  \A m \in 0..(NumMuxOptions - 1) :
    (/\ Len(oplog) >= 2
     /\ oplog[Len(oplog) - 1] = << "activate_mux_option", m, 0 >>
     /\ oplog[Len(oplog)] = << "deactivate_mux_option", m, 0 >>) =>
      /\ \A p \in OutputPins(m) :
            /\ gpio[p].mode = "Output"
            /\ gpio[p].otype = "PushPull"
            /\ gpio[p].odr = 0
      /\ gpio[MuxOption(m).input].mode = "Input"
      /\ gpio[MuxOption(m).input].pull = "None"

\* Option 1 was activated and deactivated from a prior state that is not the
\* one main() leaves (the output latch of its input pin was set).
C16_Witness ==
  /\ pc = "mux"
  /\ oplog = << << "activate_mux_option", 1, 0 >>,
               << "deactivate_mux_option", 1, 0 >> >>
  /\ gpio[InPin(1)].odr = 1

\* C17: a read, write or exchange is answered with success only after
\* rx_count has reached overall_len, the end-of-transaction flag has been seen
\* set, the hardware transaction has been ended and, with automatic
\* chip-select, chip-select has been deasserted; no reply is sent while the
\* transfer is pumping or waiting for the end of transaction.
C17_SuccessOnlyWhenDone ==
  /\ [](InFlight => reply = "none")
  /\ [](Completed =>
          /\ loc.rx_count = loc.overall_len
          /\ loc.overall_len = OverallLen(req)
          /\ ~spi.enabled /\ ~spi.started
          /\ ~loc.cs_override => ~CsAsserted(gpio, req.device_index))
  /\ [][ (IsTransfer(req') /\ reply' = "Ok" /\ reply # "Ok") =>
          /\ pc = "drain_wait"
          /\ Spi_check_eot(spi)
          /\ loc.rx_count = loc.overall_len
          /\ Calls(oplog', "end") = {Len(oplog) + 2} ]_vars

\* A transfer with automatic chip-select was answered with success.
C17_Witness ==
  /\ Completed
  /\ ~loc.cs_override
  /\ loc.rx_count = MaxLen
  /\ oplog[Len(oplog)] = << "cs_deassert", req.device_index, 0 >>

\* C18: on a fault-free bus every read, write and exchange that passes
\* validation eventually completes and is answered with success.
C18_TransfersTerminate == InFlight ~> Completed

\* C19 as stated: priming enables the bus for overall_len bytes at the
\* device's clock divider, starts the transaction, clears the
\* end-of-transaction flag, enables the transfer interrupts and then (only
\* with no lock held) asserts chip-select, in this order: the flag is cleared
\* before the interrupts are enabled.
C19_ClearEotBeforeInterrupts ==
  [][ Accepts =>
        PrimingCalls(oplog') =
          << << "enable", OverallLen(req'),
                Device(req'.device_index).clock_divider >>,
             << "start", 0, 0 >>,
             << "clear_eot", 0, 0 >>,
             << "enable_transfer_interrupts", 0, 0 >> >>
          \o (IF lock_holder.some THEN << >>
              ELSE << << "cs_assert", req'.device_index, 0 >> >>) ]_vars

\* C19 amended: priming enables the bus for overall_len bytes at the device's
\* clock divider, starts the transaction, enables the transfer interrupts,
\* clears the end-of-transaction flag and then (only with no lock held)
\* asserts chip-select, in this order: the flag is cleared after the
\* interrupts are enabled.
C19_PrimingOrder ==
  [][ Accepts =>
        /\ PrimingCalls(oplog') =
              << << "enable", OverallLen(req'),
                    Device(req'.device_index).clock_divider >>,
                 << "start", 0, 0 >>,
                 << "enable_transfer_interrupts", 0, 0 >>,
                 << "clear_eot", 0, 0 >> >>
              \o (IF lock_holder.some THEN << >>
                  ELSE << << "cs_assert", req'.device_index, 0 >> >>)
        /\ spi'.enabled /\ spi'.started /\ spi'.ie /\ ~spi'.eot
        /\ spi'.ctsize = OverallLen(req')
        /\ ~lock_holder.some => CsAsserted(gpio', req'.device_index) ]_vars

\* A transfer with automatic chip-select has been primed and no byte has
\* been sent yet.
C19_Witness ==
  /\ pc = "pump_tx" /\ loc.tx_count = 0
  /\ ~loc.cs_override
  /\ Len(oplog) >= 5
  /\ oplog[Len(oplog)] = << "cs_assert", req.device_index, 0 >>
  /\ oplog[Len(oplog) - 1] = << "clear_eot", 0, 0 >>
  /\ oplog[Len(oplog) - 2] = << "enable_transfer_interrupts", 0, 0 >>

\* C20: with automatic chip-select (no lock held when the transfer starts)
\* the chip-select of the target device is asserted before the first byte is
\* written to the transmit FIFO, is asserted at every send, every frame on
\* the bus and every receive of the transfer, and is deasserted only after
\* the hardware transaction has been ended.
C20_AutoCsCoversTransfer ==
  /\ []((InFlight /\ ~loc.cs_override) =>
          CsAsserted(gpio, loc.device_index))
  /\ [][ (/\ InFlight /\ ~loc.cs_override
          /\ \/ Len(spi'.txfifo) > Len(spi.txfifo)
             \/ Len(wire_tx') > Len(wire_tx)
             \/ Len(rx_taken') > Len(rx_taken)) =>
          /\ CsAsserted(gpio, loc.device_index)
          /\ CsAsserted(gpio', loc.device_index) ]_vars
  /\ [][ (/\ InFlight /\ ~loc.cs_override
          /\ ~CsAsserted(gpio', loc.device_index)) =>
          /\ ~spi'.enabled /\ ~spi'.started
          /\ Len(oplog') >= 2
          /\ oplog'[Len(oplog') - 1] = << "end", 0, 0 >>
          /\ oplog'[Len(oplog')] = << "cs_deassert", loc.device_index, 0 >>
     ]_vars

\* A transfer with automatic chip-select has sent two bytes and received
\* one, with the chip-select of its device asserted.
C20_Witness ==
  /\ InFlight /\ ~loc.cs_override
  /\ loc.tx_count = 2 /\ loc.rx_count = 1
  /\ CsAsserted(gpio, loc.device_index)

\* C21: at every point of the pump loop tx_permits = 16 - (tx_count -
\* rx_count) and tx_permits >= 0, so transmission never runs more than 16
\* bytes ahead of reception, for every interleaving of the task's steps with
\* the frames the controller clocks.
C21_PermitsBalance ==
  InFlight =>
    /\ loc.tx_permits = TX_PERMITS - (loc.tx_count - loc.rx_count)
    /\ loc.tx_permits >= 0
    /\ loc.tx_count - loc.rx_count <= TX_PERMITS

\* The budget is used up: 16 bytes were sent and none has been taken from
\* the receive FIFO, with more to send.
C21_Witness ==
  /\ InFlight
  /\ loc.tx_permits = 0
  /\ loc.tx_count = TX_PERMITS /\ loc.rx_count = 0
  /\ loc.tx_count < loc.overall_len

\* C22: whatever the hardware does, tx_count and rx_count never exceed
\* overall_len (which is at most 65535), so neither 16-bit counter
\* overflows; a byte offered by the receive FIFO when rx_count already
\* equals overall_len halts the task and is not counted.
C22_CountersBounded ==
  /\ [](/\ loc.tx_count <= loc.overall_len
        /\ loc.rx_count <= loc.overall_len
        /\ loc.overall_len <= U16_MAX)
  /\ [][ (/\ pc = "pump_rx" /\ pc' # pc
          /\ Spi_can_rx_byte(spi)
          /\ loc.rx_count = loc.overall_len) =>
          /\ pc' = "panicked"
          /\ loc' = loc /\ rx_taken' = rx_taken /\ spi' = spi
          /\ reply' = "none" ]_vars

\* The task halted on a byte too many: every expected byte was counted and
\* the surplus byte is still in the receive FIFO.
C22_Witness ==
  /\ pc = "panicked"
  /\ IsTransfer(req)
  /\ loc.rx_count = loc.overall_len
  /\ loc.overall_len = MaxLen
  /\ Spi_can_rx_byte(spi)
  /\ ExtraCount(spi.rxfifo) + ExtraCount(rx_taken) = 1

\* C23: bytes taken from the receive FIFO after the destination stream is
\* full are discarded: the destination never receives more than dest_len
\* bytes, what it holds is always the first bytes received, in order, and a
\* transfer whose destination is shorter than its source still completes
\* with success, the destination holding the first min(dest_len,
\* overall_len) received bytes.
C23_DiscardPastDest ==
  /\ Len(dest) <= req.dest_len
  /\ dest = Prefix(rx_taken, Len(dest))
  /\ (pc = "reply" /\ IsTransfer(req) /\ reply # "Ok") => dest = << >>
  /\ (pc = "reply" /\ IsTransfer(req) /\ reply = "Ok") =>
        /\ Len(rx_taken) = OverallLen(req)
        /\ dest = Prefix(rx_taken, Min(req.dest_len, OverallLen(req)))

\* An exchange of 34 source bytes into a destination of 33 completed: the
\* destination holds the first 33 bytes received and the last was dropped.
C23_Witness ==
  /\ pc = "reply" /\ req.kind = "exchange" /\ reply = "Ok"
  /\ Len(req.src) = PumpMaxLen
  /\ req.dest_len = PumpMaxLen - 1
  /\ Len(rx_taken) = PumpMaxLen
  /\ Len(dest) = PumpMaxLen - 1

\* C24: when tx_count reaches overall_len the engine disables the
\* transmit-ready interrupt and drops the source stream (in the pass that
\* sent the last byte), and from then until the transfer ends no further
\* byte is written to the transmit FIFO.
C24_TxStopsAtOverallLen ==
  /\ []((InFlight /\ loc.tx_count = loc.overall_len /\ pc # "pump_tx") =>
          (~loc.tx /\ ~spi.txp_ie))
  /\ [][ (InFlight /\ loc.tx /\ ~loc'.tx) =>
          /\ pc = "pump_tx"
          /\ loc.tx_count = loc.overall_len
          /\ ~spi'.txp_ie ]_vars
  /\ [][ (InFlight /\ loc.tx_count = loc.overall_len) =>
          /\ Len(spi'.txfifo) <= Len(spi.txfifo)
          /\ InFlight' => loc'.tx_count = loc.tx_count ]_vars

\* The last source byte is sent, the source stream is dropped and the
\* transmit-ready interrupt is off while bytes are still to be received.
C24_Witness ==
  /\ InFlight /\ req.has_src
  /\ loc.tx_count = loc.overall_len /\ loc.overall_len = MaxLen
  /\ ~loc.tx /\ ~spi.txp_ie
  /\ loc.rx_count < loc.overall_len

\* C25: for every transfer, a pure read included, the transmit-ready
\* interrupt has been disabled by the time the engine leaves the pump loop
\* and waits for the end of transaction.
C25_TxIrqOffInDrainWait == pc = "drain_wait" => ~spi.txp_ie

\* C26: inside the pump loop the task suspends on the interrupt
\* notification exactly when a full pass sent no byte and received no byte
\* while rx_count # overall_len; after a pass that moved a byte it re-enters
\* the loop without suspending, and it never goes from one pass to the next
\* without suspending when the pass moved no byte. (made_progress is shown
\* to be the record of a byte moved in the current pass.)
C26_SuspendIffNoProgress ==
  /\ [][ (InFlight /\ InFlight' /\ (loc'.tx_count # loc.tx_count
                                      \/ loc'.rx_count # loc.rx_count)) =>
          loc'.made_progress ]_vars
  /\ [][ (InFlight /\ InFlight' /\ ~loc.made_progress
          /\ loc'.made_progress) =>
          (loc'.tx_count # loc.tx_count \/ loc'.rx_count # loc.rx_count)
     ]_vars
  /\ [][ (InFlight /\ pc # "pump_tx" /\ pc' = "pump_tx") =>
          ~loc'.made_progress ]_vars
  /\ [][ (InFlight /\ InFlight' /\ loc.made_progress
          /\ ~loc'.made_progress) =>
          (pc # "pump_tx" /\ pc' = "pump_tx") ]_vars
  /\ [][ (pc = "pump_rx" /\ pc' # "pump_rx") =>
          /\ pc' = "pump_wait" <=>
                (/\ ~loc.made_progress
                 /\ loc.rx_count # loc.overall_len
                 /\ ~Spi_check_overrun(spi))
          /\ (loc.made_progress /\ loc.rx_count # loc.overall_len) =>
                pc' = "pump_tx"
          /\ pc' = "pump_tx" => loc.made_progress ]_vars
  /\ [](pc = "pump_wait" =>
          (~loc.made_progress /\ loc.rx_count # loc.overall_len))

\* A write has sent all its bytes; a pass moved nothing and the task is
\* suspended until the controller has clocked a frame.
C26_Witness ==
  /\ pc = "pump_wait"
  /\ req.has_src
  /\ loc.tx_count = loc.overall_len
  /\ loc.rx_count < loc.overall_len
  /\ ~loc.made_progress

\* C27: after rx_count = overall_len the engine does not end the hardware
\* transaction before it has seen the end-of-transaction flag set in a check
\* made after a wake-up from the interrupt notification; it clears the flag
\* once in the final loop, before ending the transaction.
C27_EndOnlyAfterEot ==
  /\ [](pc = "drain_wait" =>
          (spi.enabled /\ spi.started /\ loc.rx_count = loc.overall_len))
  /\ [][ (spi.started /\ ~spi'.started) =>
          /\ pc = "drain_wait"
          /\ Spi_check_eot(spi)
          /\ loc.rx_count = loc.overall_len
          /\ ~spi'.eot
          /\ SubSeq(oplog', Len(oplog) + 1, Len(oplog) + 2) =
                << << "clear_eot", 0, 0 >>, << "end", 0, 0 >> >>
          /\ Cardinality(Calls(oplog', "clear_eot")) = 2
          /\ Cardinality(Calls(oplog', "end")) = 1 ]_vars
  /\ [][ (pc = "drain_wait" /\ ~Spi_check_eot(spi)) =>
          (spi'.started /\ spi'.enabled /\ reply' = "none") ]_vars

\* The engine waits for the end of transaction with every byte counted and
\* the flag not set: the transaction is not ended.
C27_Witness ==
  /\ pc = "drain_wait"
  /\ loc.rx_count = loc.overall_len
  /\ ~Spi_check_eot(spi)
  /\ spi.started

\* C28: a wake-up never by itself moves data or ends the transfer. The step
\* that resumes the task in the pump loop changes no counter, no FIFO, no
\* pin and no byte sent or delivered; every send happens with can_tx_frame
\* true, every receive takes the byte at the head of a non-empty receive
\* FIFO, and the transaction is ended only with check_eot true; so with any
\* number of spurious wake-ups a completed transfer has transmitted the
\* padded source and taken exactly the bytes the bus returned.
C28_WakeMovesNothing ==
  /\ [][ (pc = "pump_wait" /\ pc' # pc) =>
          /\ pc' = "pump_tx"
          /\ loc' = [loc EXCEPT !.made_progress = FALSE]
          /\ UNCHANGED << spi, gpio, dest, wire_tx, wire_rx, rx_taken,
                          reply, oplog >> ]_vars
  /\ [][ (InFlight /\ Len(spi'.txfifo) > Len(spi.txfifo)) =>
          /\ pc = "pump_tx"
          /\ Spi_can_tx_frame(spi)
          /\ loc.tx_permits > 0 /\ loc.tx_count < loc.overall_len ]_vars
  /\ [][ (InFlight /\ Len(rx_taken') > Len(rx_taken)) =>
          /\ pc = "pump_rx"
          /\ Spi_can_rx_byte(spi)
          /\ rx_taken' = Append(rx_taken, Head(spi.rxfifo)) ]_vars
  /\ [][ (InFlight /\ ~InFlight') =>
          (pc = "drain_wait" /\ Spi_check_eot(spi)) ]_vars
  /\ []((Completed /\ LeaseOk) =>
          /\ wire_tx = PadTo(req.src, OverallLen(req))
          /\ rx_taken = wire_rx
          /\ Len(wire_rx) = OverallLen(req))

\* The task is suspended in the pump loop with nothing pending: every byte
\* is in the transmit FIFO and no frame has been clocked, so a wake-up now
\* is a spurious one.
C28_Witness ==
  /\ pc = "pump_wait"
  /\ ~IrqPending(spi)
  /\ loc.tx_count = loc.overall_len /\ loc.rx_count = 0
  /\ wire_tx = << >>

\* C29: if the hardware reports a FIFO overrun at a no-progress point of the
\* pump loop the task halts at once: it does not suspend, moves no further
\* byte, does not end the transaction and sends no reply.
C29_OverrunHalts ==
  /\ [][ (/\ pc = "pump_rx" /\ pc' # pc
          /\ ~Spi_can_rx_byte(spi)
          /\ ~loc.made_progress /\ loc.rx_count # loc.overall_len
          /\ Spi_check_overrun(spi)) =>
          /\ pc' = "panicked"
          /\ UNCHANGED << spi, gpio, loc, dest, rx_taken, reply, oplog >>
     ]_vars
  /\ [][ pc = "panicked" =>
          /\ pc' = "panicked"
          /\ UNCHANGED << gpio, loc, dest, rx_taken, reply, oplog >>
          /\ spi'.enabled = spi.enabled /\ spi'.started = spi.started
          /\ Len(spi'.txfifo) <= Len(spi.txfifo) ]_vars

\* The task halted on an overrun: bytes are outstanding, the transaction is
\* still started and there is no reply.
C29_Witness ==
  /\ pc = "panicked"
  /\ Spi_check_overrun(spi)
  /\ ~loc.made_progress /\ loc.rx_count # loc.overall_len
  /\ spi.started
  /\ reply = "none"

\* The task halts on an overrun seen at a no-progress point.
HaltsOnOverrun ==
  /\ pc = "pump_rx"
  /\ ~Spi_can_rx_byte(spi)
  /\ ~loc.made_progress /\ loc.rx_count # loc.overall_len
  /\ Spi_check_overrun(spi)

\* The task halts on a byte offered after the last expected one.
HaltsOnSurplusByte ==
  /\ pc = "pump_rx"
  /\ Spi_can_rx_byte(spi)
  /\ loc.rx_count = loc.overall_len

\* The request has neither a source nor a destination.
HaltsOnNoDirection == Idle /\ IsTransfer(req') /\ ~req'.has_src /\ ~req'.has_dest

C31_RefusedTransferChangesNothing ==
  [][ Dispatches({"read", "write", "exchange"}) =>
        /\ (\/ req'.device_index >= NumDevices
            \/ lock_holder.some
                 /\ lock_holder.device_index # req'.device_index
            \/ OverallLen(req') = 0) =>
             reply' \in {"BadDevice", "BadTransferSize"}
        /\ reply' \in {"BadDevice", "BadTransferSize"} =>
             /\ pc' = "reply"
             /\ UNCHANGED << lock_holder, current_mux_index, gpio, spi,
                             oplog, dest, wire_tx >>
             /\ ~spi'.enabled /\ ~spi'.started /\ ~spi'.ie ]_vars

\* An exchange with device 2 (on mux option 1) was refused with
\* option 0 routed and device 0 locked with chip-select asserted.
C31_Witness ==
  /\ pc = "reply" /\ req.kind = "exchange"
  /\ reply = "BadDevice"
  /\ req.device_index = 2 /\ current_mux_index = 0
  /\ lock_holder.some /\ lock_holder.device_index = 0
  /\ CsAsserted(gpio, 0)

\* C32: implicit release (the closed receive on the dead holder fails)
\* changes only the lock state: it clears the lock and makes no GPIO or bus
\* call, leaving every chip-select line, every mux pin, the data line swap
\* and the current mux index unchanged.
C32_ImplicitReleaseOnlyLock ==
  [][ (Idle /\ pc' = "recv" /\ lock_holder.some /\ ~lock_holder'.some) =>
        /\ ~TaskAlive(lock_holder.task)
        /\ lock_holder' = None
        /\ UNCHANGED << gpio, spi, current_mux_index, oplog >> ]_vars

\* The lock of a dead holder has been cleared by the failed receive: no
\* lock is held, the server is idle, and the chip-select the holder
\* asserted on device 2 is still asserted, with mux option 1 still routed.
C32_Witness ==
  /\ Idle /\ ~lock_holder.some
  /\ CsAsserted(gpio, 2)
  /\ current_mux_index = 1

\* C33: after any sequence of lock, release, implicit release and transfer
\* requests, whenever a frame is exchanged on the bus no device other than
\* the target of the transfer has its chip-select asserted.
C33_OnlyTargetSelected ==
  [][ (Len(wire_tx') > Len(wire_tx)) =>
        \A d \in 0..(NumDevices - 1) :
          d # loc.device_index => ~CsAsserted(gpio, d) ]_vars

\* Every pin of mux option m is routed to the SPI peripheral.
IsActive(g, m) ==
  \A p \in OutputPins(m) \cup {MuxOption(m).input} : g[p].mode = "Alternate"

\* Mux option m is deactivated: outputs driven low as GPIO outputs, input
\* a GPIO input.
IsDeactivated(g, m) ==
  /\ \A p \in OutputPins(m) : g[p].mode = "Output" /\ g[p].odr = 0
  /\ g[MuxOption(m).input].mode = "Input"

\* C34: whenever the server is between requests, current_mux_index is a
\* valid index into the mux option table and names the one and only mux
\* option whose pins are in alternate mode; every other option is
\* deactivated; and the data line swap is that of the current option.
C34_OneActiveMux ==
  Idle =>
    /\ current_mux_index \in 0..(NumMuxOptions - 1)
    /\ IsActive(gpio, current_mux_index)
    /\ \A m \in 0..(NumMuxOptions - 1) :
         m # current_mux_index =>
           (IsDeactivated(gpio, m) /\ ~IsActive(gpio, m))
    /\ spi.swap = MuxOption(current_mux_index).swap_data

\* Between requests with the mux switched away from the startup option.
C34_Witness ==
  /\ Idle
  /\ current_mux_index = 1
  /\ IsActive(gpio, 1) /\ IsDeactivated(gpio, 0)

\* C35: whatever pin, mux and chip-select state a previous run left
\* behind, when startup has finished and before the first request is
\* received every chip-select is deasserted and in GPIO output mode, every
\* mux option other than 0 was deactivated before option 0 was activated,
\* option 0 is active, current_mux_index is 0 and no lock is held.
C35_StartupState ==
  pc = "recv" =>
    /\ \A d \in 0..(NumDevices - 1) :
         ~CsAsserted(gpio, d) /\ gpio[CsPin(d)].mode = "Output"
    /\ \A m \in 1..(NumMuxOptions - 1) :
         /\ IsDeactivated(gpio, m)
         /\ \E i \in 1..Len(oplog) :
              /\ oplog[i] = << "deactivate_mux_option", m, 0 >>
              /\ \A j \in Calls(oplog, "activate_mux_option") : i < j
    /\ Calls(oplog, "activate_mux_option") = {Len(oplog)}
    /\ oplog[Len(oplog)] = << "activate_mux_option", 0, 0 >>
    /\ IsActive(gpio, 0)
    /\ spi.swap = MuxOption(0).swap_data
    /\ current_mux_index = 0
    /\ lock_holder = None

\* Startup has finished on pins a previous run had left otherwise than a
\* clean start does (the output latch of the input pin of option 1 set).
C35_Witness ==
  /\ pc = "recv"
  /\ oplog = boot_log
  /\ gpio[InPin(1)].odr = 1
  /\ IsActive(gpio, 0)

\* The physical pins, as <<port, bit>>, that a pin set names.
PinsIn(pinset) ==
  {<< pinset.port, b >> : b \in {b \in 0..15 : (pinset.pin_mask \div 2^b) % 2 = 1}}

\* The physical pins the output groups of a mux option cover.
OutputsCover(muxopt) ==
  UNION {PinsIn(muxopt.outputs[k]) : k \in 1..Len(muxopt.outputs)}

\* C36: every mux option of a configuration that the startup validator
\* accepted has output pin groups that together cover exactly two distinct
\* physical pins, none of which is the input pin.
C36_TwoDistinctOutputPins ==
  pc = "setup" =>
    \A i \in 1..Len(config.mux_options) :
      /\ Cardinality(OutputsCover(config.mux_options[i])) = 2
      /\ OutputsCover(config.mux_options[i])
           \cap PinsIn(config.mux_options[i].input) = {}

\* The conditions under which the validator is said to halt startup.
HaltConditions(cfg) ==
  \/ cfg.registers = "null"
  \/ Len(cfg.mux_options) = 0
  \/ \E i \in 1..Len(cfg.mux_options) :
       LET muxopt == cfg.mux_options[i]
           groups == 1..Len(muxopt.outputs)
           Sum[k \in 0..Len(muxopt.outputs)] ==
             IF k = 0 THEN 0
             ELSE Sum[k - 1] + Cardinality(PinsIn(muxopt.outputs[k]))
       IN  \/ Len(muxopt.outputs) = 0
           \/ \E k \in groups : muxopt.outputs[k].pin_mask = 0
           \/ \E k \in groups :
                /\ muxopt.outputs[k].port = muxopt.input.port
                /\ PinsIn(muxopt.outputs[k]) \cap PinsIn(muxopt.input) # {}
           \/ Sum[Len(muxopt.outputs)] # 2
           \/ Cardinality(PinsIn(muxopt.input)) # 1
  \/ Len(cfg.devices) = 0
  \/ \E i \in 1..Len(cfg.devices) :
       \/ cfg.devices[i].mux_index \notin 0..(Len(cfg.mux_options) - 1)
       \/ cfg.devices[i].cs.pin_mask \notin {2^b : b \in 0..15}

\* C37: the startup validator halts startup if and only if the register
\* pointer is null, or there is no mux option, or some mux option has no
\* output group, a group with an empty mask, a group on the input pin's
\* port that includes the input pin, a summed output pin count other than
\* 2 or an input mask without exactly one bit, or there is no device, or
\* some device has a mux index out of range or a chip-select mask that is
\* not a power of two; startup goes on to serve requests only after a pass.
C37_HaltsIffBadConfig ==
  /\ pc = "panic" => HaltConditions(config)
  /\ pc = "setup" => ~HaltConditions(config)
  /\ pc \in {"main", "setup", "panic"}

\* The validator has halted on a table whose only fault is in its second
\* mux option, and has passed a table with two mux options.
C37_Witness ==
  /\ pc = "panic"
  /\ config.registers # "null"
  /\ Len(config.mux_options) = 2 /\ Len(config.devices) = 1
  /\ check_mux_option(config.mux_options[1])
  /\ ~check_mux_option(config.mux_options[2])
  /\ check_devices(config, 1)

\* C38: in the sequencer server, after every set_state(target) call that
\* returned success, get_state returns target: every logged get_state
\* result equals the target of the latest successful set_state before it,
\* for both legal transitions and after any sequence of set_state calls.
C38_GetStateAfterSetState ==
  \A i \in 1..Len(oplog) : \A j \in 1..(i - 1) :
    ( /\ oplog[i][1] = "get_state"
      /\ oplog[j][1] = "set_state" /\ oplog[j][3] = "Ok"
      /\ \A k \in (j + 1)..(i - 1) :
           ~(oplog[k][1] = "set_state" /\ oplog[k][3] = "Ok") )
    => oplog[i][2] = oplog[j][2]

====
